---- MODULE Spec2Model ----
(***************************************************************************)
(* Model of the data reconciliation pipeline of roteiro-ptchat             *)
(* (app/routes/api.data.tsx): getTableRange, the grid fetch, the           *)
(* concurrent processRow fan-out, and the merge reduce of fetchData; of    *)
(* its loader with the KV snapshot; of indexToSheetsColumn (lib/encode);   *)
(* and of Home with useFilters (routes/home.tsx, filter-sidebar).          *)
(*                                                                         *)
(* JavaScript values are encoded as follows.  An optional value (a field   *)
(* that may be undefined) is a sequence of length at most one: None is     *)
(* undefined and Some(v) is the value v.  Strings are TLA+ strings, except *)
(* the formatted text of a "Tipo" cell, which is a sequence of characters  *)
(* so that split(', ') can be computed.  A thrown exception is a result of *)
(* kind "throw".                                                           *)
(***************************************************************************)
EXTENDS Integers, Sequences, FiniteSets, TLC

\* ------------------------------------------------------------------ bounds
MaxRows == 2
MaxBound == 2
MaxRequests == 2
MaxLoaderRows == 1
MaxIndex == 702
MaxNegative == 2

\* ---------------------------------------------------------- option values
None == <<>>
Some(v) == <<v>>
IsSome(o) == Len(o) > 0
Get(o) == o[1]

\* ------------------------------------------------------------- encode.ts
ALPHABET == <<"A", "B", "C", "D", "E", "F", "G", "H", "I", "J", "K", "L", "M",
              "N", "O", "P", "Q", "R", "S", "T", "U", "V", "W", "X", "Y", "Z">>

\* the while loop of indexToSheetsColumn, from the state (index, column)
RECURSIVE ColumnLoop(_, _)
ColumnLoop(index, column) ==
    IF index >= 0
    THEN LET remainder == index % 26
             column2 == ALPHABET[remainder + 1] \o column
             index2 == (index \div 26) - 1
         IN  IF index2 < 0 THEN column2 ELSE ColumnLoop(index2, column2)
    ELSE column

\* indexToSheetsColumn applied to an optional number: with undefined both
\* (index < 0) and (index >= 0) are false, so the result is ''.
indexToSheetsColumn(index) ==
    IF ~IsSome(index) THEN [kind |-> "return", value |-> ""]
    ELSE IF Get(index) < 0 THEN [kind |-> "throw", value |-> "Index must be non-negative"]
    ELSE [kind |-> "return", value |-> ColumnLoop(Get(index), "")]

\* `${n}` of an optional number
NumberText(n) == IF IsSome(n) THEN ToString(Get(n)) ELSE "undefined"

\* ---------------------------------------------------------- getTableRange
\* A metadata response: ok is res.ok, table the optional
\* data.sheets[sheetIndex].tables[tableIndex], whose range is optional and
\* whose four bounds are optional numbers.
RangeOf(sc, sr, ec, er) ==
    [startColumnIndex |-> sc, startRowIndex |-> sr,
     endColumnIndex |-> ec, endRowIndex |-> er]

\* getTableRange without the checks of the table and of its range
getTableRange_Unchecked(meta) ==
    IF ~meta.ok THEN [kind |-> "throw", value |-> "Failed to read sheet metadata."]
    ELSE IF ~IsSome(meta.table) \/ ~IsSome(Get(meta.table).range)
    THEN [kind |-> "return", value |-> "undefined:undefined"]
    ELSE LET r == Get(Get(meta.table).range)
             c1 == indexToSheetsColumn(r.startColumnIndex)
             c2 == indexToSheetsColumn(r.endColumnIndex)
         IN  IF c1.kind = "throw" THEN c1
             ELSE IF c2.kind = "throw" THEN c2
             ELSE [kind |-> "return",
                   value |-> c1.value \o NumberText(r.startRowIndex) \o ":"
                             \o c2.value \o NumberText(r.endRowIndex)]

getTableRange(meta) ==
    IF ~meta.ok THEN [kind |-> "throw", value |-> "Failed to read sheet metadata."]
    ELSE IF ~IsSome(meta.table)
    THEN [kind |-> "throw", value |-> "Table #0 not found in sheet #0"]
    ELSE LET range == Get(meta.table).range IN
         IF ~IsSome(range)
         THEN [kind |-> "throw", value |-> "Table has no defined range. Should be unreachable."]
         ELSE LET r == Get(range)
                  c1 == indexToSheetsColumn(r.startColumnIndex)
                  c2 == indexToSheetsColumn(r.endColumnIndex)
              IN  IF c1.kind = "throw" THEN c1
                  ELSE IF c2.kind = "throw" THEN c2
                  ELSE [kind |-> "return",
                        value |-> c1.value \o NumberText(r.startRowIndex) \o ":"
                                  \o c2.value \o NumberText(r.endRowIndex)]

\* ------------------------------------------------------ grid cells and rows
\* A cell of the grid: formattedValue, effectiveValue and the result of the
\* optional chain chipRuns?.[0]?.chip?.richLinkProperties?.uri.
Cell(fv, ev, uri) == [formattedValue |-> fv, effectiveValue |-> ev, chipUri |-> uri]

\* table.columnProperties of the sheet
ColumnProperties ==
    << [columnName |-> "Tipo"], [columnName |-> "Cidade"],
       [columnName |-> "Google Maps"], [columnName |-> "User"],
       [columnName |-> "Rank"], [columnName |-> "Notas"] >>

\* A URL is the sequence of its parts; its text is their concatenation.
RECURSIVE Concat(_)
Concat(parts) == IF parts = <<>> THEN "" ELSE Head(parts) \o Concat(Tail(parts))

PlacePrefix == "https://www.google.com/maps/place/"
DataPrefix == "/data=!4m2!3m1!1s"
PlaceUrl(name, token) == <<PlacePrefix, name, DataPrefix, token>>
OtherUrl == <<"https://maps.app.goo.gl/", "xyz">>

\* PLACE_REGEXP.exec(url): null (<<>>) or the pair (whole match, captured
\* token).  The pattern needs the place prefix, a name, the data part ending
\* in <digits>s and a non-empty token.
PLACE_REGEXP_exec(url) ==
    IF /\ Len(url) = 4
       /\ url[1] = PlacePrefix
       /\ url[2] # ""
       /\ url[3] = DataPrefix
       /\ url[4] # ""
    THEN <<Concat(url), url[4]>>
    ELSE <<>>

\* text.split(', ') of a sequence of characters
RECURSIVE SplitFrom(_, _, _, _)
SplitFrom(s, i, cur, acc) ==
    IF i > Len(s) THEN Append(acc, cur)
    ELSE IF i + 1 <= Len(s) /\ s[i] = "," /\ s[i + 1] = " "
    THEN SplitFrom(s, i + 2, "", Append(acc, cur))
    ELSE SplitFrom(s, i + 1, cur \o s[i], acc)

Split(s) == SplitFrom(s, 1, "", <<>>)

\* Array.from(new Set(list)): the distinct values in first-insertion order
RECURSIVE ArrayFromSet(_, _)
ArrayFromSet(list, acc) ==
    IF list = <<>> THEN acc
    ELSE IF \E k \in 1..Len(acc) : acc[k] = Head(list)
    THEN ArrayFromSet(Tail(list), acc)
    ELSE ArrayFromSet(Tail(list), Append(acc, Head(list)))

\* ------------------------------------------------------------- processRow
\* Object.fromEntries(row.values!.map(...)): the record of the cells, keyed
\* by the column name at the same position.
RowExtract(row, columnProperties) ==
    IF ~IsSome(row.values)
    THEN [kind |-> "throw", value |-> "TypeError"]
    ELSE LET values == Get(row.values) IN
         IF Len(values) > Len(columnProperties)
         THEN [kind |-> "throw", value |-> "TypeError"]
         ELSE [kind |-> "return",
               value |-> [name \in {columnProperties[c].columnName : c \in 1..Len(values)} |->
                            values[CHOOSE c \in 1..Len(values) :
                                      /\ columnProperties[c].columnName = name
                                      /\ \A d \in 1..Len(values) :
                                            columnProperties[d].columnName = name => d <= c]]]

Has(data, name) == name \in DOMAIN data

\* !mapsUrl
NoMapsUrl(uri) == ~IsSome(uri) \/ Concat(Get(uri)) = ""

\* processRow up to its await of the place lookup: it throws, returns a
\* failure outcome, or issues the lookup for the extracted placeId.
ProcessRowStart(row, rowIdx, columnProperties) ==
    LET ext == RowExtract(row, columnProperties) IN
    IF ext.kind = "throw" THEN ext
    ELSE LET data == ext.value IN
    IF ~Has(data, "Google Maps") THEN [kind |-> "throw", value |-> "TypeError"]
    ELSE LET mapsUrl == data["Google Maps"].chipUri IN
    IF NoMapsUrl(mapsUrl)
    THEN [kind |-> "return",
          value |-> [ok |-> FALSE,
                     data |-> [error |-> "No maps URL in row " \o ToString(rowIdx),
                               meta |-> [rowData |-> data]]]]
    ELSE LET placeMatch == PLACE_REGEXP_exec(Get(mapsUrl)) IN
    IF placeMatch = <<>>
    THEN [kind |-> "return",
          value |-> [ok |-> FALSE,
                     data |-> [error |-> "No maps place ID in url " \o Concat(Get(mapsUrl)),
                               meta |-> [rowData |-> data]]]]
    ELSE [kind |-> "await", placeId |-> placeMatch[2],
          mapsUrl |-> Concat(Get(mapsUrl)), data |-> data]

\* x || 0 of an optional number, x || '' of an optional string
OrZero(o) == IF IsSome(o) /\ Get(o) # 0 THEN Get(o) ELSE 0
OrEmpty(o) == IF IsSome(o) /\ Get(o) # "" THEN Get(o) ELSE ""

\* ProcessRowResume with the placeId left out of the failure's meta
ProcessRowResume_NoPlaceId(ctx, placeRes) ==
    LET data == ctx.data IN
    IF ~placeRes.ok
    THEN [kind |-> "return",
          value |-> [ok |-> FALSE,
                     data |-> [error |-> "No place information for " \o ctx.mapsUrl,
                               meta |-> [rowData |-> data]]]]
    ELSE IF \/ ~Has(data, "Tipo") \/ ~Has(data, "Cidade") \/ ~Has(data, "User")
            \/ ~Has(data, "Rank") \/ ~Has(data, "Notas")
    THEN [kind |-> "throw", value |-> "TypeError"]
    ELSE IF ~IsSome(data["Rank"].effectiveValue)
    THEN [kind |-> "throw", value |-> "TypeError"]
    ELSE [kind |-> "return",
          value |-> [ok |-> TRUE,
                     data |-> [types |-> IF IsSome(data["Tipo"].formattedValue)
                                         THEN Split(Get(data["Tipo"].formattedValue))
                                         ELSE <<>>,
                               location |-> [city |-> data["Cidade"].formattedValue,
                                             name |-> data["Google Maps"].formattedValue,
                                             metadata |-> placeRes.body,
                                             url |-> ctx.mapsUrl,
                                             placeId |-> ctx.placeId],
                               reviews |-> << [user |-> data["User"].formattedValue,
                                               ranking |-> OrZero(Get(data["Rank"].effectiveValue).numberValue),
                                               notes |-> OrEmpty(data["Notas"].formattedValue)] >>]]]

\* processRow after the lookup has answered with placeRes
ProcessRowResume(ctx, placeRes) ==
    LET data == ctx.data IN
    IF ~placeRes.ok
    THEN [kind |-> "return",
          value |-> [ok |-> FALSE,
                     data |-> [error |-> "No place information for " \o ctx.mapsUrl,
                               meta |-> [placeId |-> ctx.placeId, rowData |-> data]]]]
    ELSE IF \/ ~Has(data, "Tipo") \/ ~Has(data, "Cidade") \/ ~Has(data, "User")
            \/ ~Has(data, "Rank") \/ ~Has(data, "Notas")
    THEN [kind |-> "throw", value |-> "TypeError"]
    ELSE IF ~IsSome(data["Rank"].effectiveValue)
    THEN [kind |-> "throw", value |-> "TypeError"]
    ELSE [kind |-> "return",
          value |-> [ok |-> TRUE,
                     data |-> [types |-> IF IsSome(data["Tipo"].formattedValue)
                                         THEN Split(Get(data["Tipo"].formattedValue))
                                         ELSE <<>>,
                               location |-> [city |-> data["Cidade"].formattedValue,
                                             name |-> data["Google Maps"].formattedValue,
                                             metadata |-> placeRes.body,
                                             url |-> ctx.mapsUrl,
                                             placeId |-> ctx.placeId],
                               reviews |-> << [user |-> data["User"].formattedValue,
                                               ranking |-> OrZero(Get(data["Rank"].effectiveValue).numberValue),
                                               notes |-> OrEmpty(data["Notas"].formattedValue)] >>]]]

\* ------------------------------------------------- fetchData: merge reduce
\* The accumulator of the reduce.  places is the Map in insertion order; an
\* entry holds its key and a reference (the index in rows) to the row outcome
\* object stored under it, because the Map stores the row's own data object
\* and the merge mutates it in place.
EmptyAgg(rows) ==
    [rows |-> rows, places |-> <<>>, errors |-> <<>>,
     uniques |-> [types |-> <<>>, users |-> <<>>, cities |-> <<>>]]

\* set.add(v) for each v of list, on a Set kept in insertion order
AddAll(set, list) == ArrayFromSet(set \o list, <<>>)

\* agg.places.get(placeId): the entries stored under the key
PlacesGet(places, placeId) == {e \in 1..Len(places) : places[e].key = placeId}

\* MergeStep with the merged review put in front of the existing ones
MergeStep_Unshift(agg, k) ==
    LET row == agg.rows[k] IN
    IF ~row.ok
    THEN [agg EXCEPT !.errors = Append(@, row.data)]
    ELSE LET data == row.data
             placeId == data.location.placeId
             uniques == [types |-> AddAll(agg.uniques.types, data.types),
                         users |-> AddAll(agg.uniques.users,
                                          [r \in 1..Len(data.reviews) |-> data.reviews[r].user]),
                         cities |-> AddAll(agg.uniques.cities, <<data.location.city>>)]
             found == PlacesGet(agg.places, placeId)
         IN  IF found # {}
             THEN LET ref == agg.places[CHOOSE e \in found : TRUE].ref
                      dupe == agg.rows[ref].data
                  IN  [agg EXCEPT !.uniques = uniques,
                                  !.rows[ref].data.reviews = <<data.reviews[1]>> \o dupe.reviews,
                                  !.rows[ref].data.types = ArrayFromSet(dupe.types \o data.types, <<>>)]
             ELSE [agg EXCEPT !.uniques = uniques,
                              !.places = Append(@, [key |-> placeId, ref |-> k])]

\* MergeStep with the types of the merged row replacing the existing ones
MergeStep_ReplaceTypes(agg, k) ==
    LET row == agg.rows[k] IN
    IF ~row.ok
    THEN [agg EXCEPT !.errors = Append(@, row.data)]
    ELSE LET data == row.data
             placeId == data.location.placeId
             uniques == [types |-> AddAll(agg.uniques.types, data.types),
                         users |-> AddAll(agg.uniques.users,
                                          [r \in 1..Len(data.reviews) |-> data.reviews[r].user]),
                         cities |-> AddAll(agg.uniques.cities, <<data.location.city>>)]
             found == PlacesGet(agg.places, placeId)
         IN  IF found # {}
             THEN LET ref == agg.places[CHOOSE e \in found : TRUE].ref
                      dupe == agg.rows[ref].data
                  IN  [agg EXCEPT !.uniques = uniques,
                                  !.rows[ref].data.reviews = Append(dupe.reviews, data.reviews[1]),
                                  !.rows[ref].data.types = data.types]
             ELSE [agg EXCEPT !.uniques = uniques,
                              !.places = Append(@, [key |-> placeId, ref |-> k])]

\* MergeStep with a failure also adding the city of its row to uniques.cities
MergeStep_ErrorAddsCity(agg, k) ==
    LET row == agg.rows[k] IN
    IF ~row.ok
    THEN [agg EXCEPT !.errors = Append(@, row.data),
                     !.uniques.cities =
                         AddAll(@, <<row.data.meta.rowData["Cidade"].formattedValue>>)]
    ELSE LET data == row.data
             placeId == data.location.placeId
             uniques == [types |-> AddAll(agg.uniques.types, data.types),
                         users |-> AddAll(agg.uniques.users,
                                          [r \in 1..Len(data.reviews) |-> data.reviews[r].user]),
                         cities |-> AddAll(agg.uniques.cities, <<data.location.city>>)]
             found == PlacesGet(agg.places, placeId)
         IN  IF found # {}
             THEN LET ref == agg.places[CHOOSE e \in found : TRUE].ref
                      dupe == agg.rows[ref].data
                  IN  [agg EXCEPT !.uniques = uniques,
                                  !.rows[ref].data.reviews = Append(dupe.reviews, data.reviews[1]),
                                  !.rows[ref].data.types = ArrayFromSet(dupe.types \o data.types, <<>>)]
             ELSE [agg EXCEPT !.uniques = uniques,
                              !.places = Append(@, [key |-> placeId, ref |-> k])]

\* MergeStep with a new place put before the places found so far
MergeStep_Prepend(agg, k) ==
    LET row == agg.rows[k] IN
    IF ~row.ok
    THEN [agg EXCEPT !.errors = Append(@, row.data)]
    ELSE LET data == row.data
             placeId == data.location.placeId
             uniques == [types |-> AddAll(agg.uniques.types, data.types),
                         users |-> AddAll(agg.uniques.users,
                                          [r \in 1..Len(data.reviews) |-> data.reviews[r].user]),
                         cities |-> AddAll(agg.uniques.cities, <<data.location.city>>)]
             found == PlacesGet(agg.places, placeId)
         IN  IF found # {}
             THEN LET ref == agg.places[CHOOSE e \in found : TRUE].ref
                      dupe == agg.rows[ref].data
                  IN  [agg EXCEPT !.uniques = uniques,
                                  !.rows[ref].data.reviews = Append(dupe.reviews, data.reviews[1]),
                                  !.rows[ref].data.types = ArrayFromSet(dupe.types \o data.types, <<>>)]
             ELSE [agg EXCEPT !.uniques = uniques,
                              !.places = <<[key |-> placeId, ref |-> k]>> \o @]

\* MergeStep with the uniques taken from the rows that insert a place only
MergeStep_UniquesOnInsert(agg, k) ==
    LET row == agg.rows[k] IN
    IF ~row.ok
    THEN [agg EXCEPT !.errors = Append(@, row.data)]
    ELSE LET data == row.data
             placeId == data.location.placeId
             uniques == [types |-> AddAll(agg.uniques.types, data.types),
                         users |-> AddAll(agg.uniques.users,
                                          [r \in 1..Len(data.reviews) |-> data.reviews[r].user]),
                         cities |-> AddAll(agg.uniques.cities, <<data.location.city>>)]
             found == PlacesGet(agg.places, placeId)
         IN  IF found # {}
             THEN LET ref == agg.places[CHOOSE e \in found : TRUE].ref
                      dupe == agg.rows[ref].data
                  IN  [agg EXCEPT !.rows[ref].data.reviews = Append(dupe.reviews, data.reviews[1]),
                                  !.rows[ref].data.types = ArrayFromSet(dupe.types \o data.types, <<>>)]
             ELSE [agg EXCEPT !.uniques = uniques,
                              !.places = Append(@, [key |-> placeId, ref |-> k])]

\* MergeStep with a later row of an identity replacing the location of its place
MergeStep_LastWins(agg, k) ==
    LET row == agg.rows[k] IN
    IF ~row.ok
    THEN [agg EXCEPT !.errors = Append(@, row.data)]
    ELSE LET data == row.data
             placeId == data.location.placeId
             uniques == [types |-> AddAll(agg.uniques.types, data.types),
                         users |-> AddAll(agg.uniques.users,
                                          [r \in 1..Len(data.reviews) |-> data.reviews[r].user]),
                         cities |-> AddAll(agg.uniques.cities, <<data.location.city>>)]
             found == PlacesGet(agg.places, placeId)
         IN  IF found # {}
             THEN LET ref == agg.places[CHOOSE e \in found : TRUE].ref
                      dupe == agg.rows[ref].data
                  IN  [agg EXCEPT !.uniques = uniques,
                                  !.rows[ref].data.location = data.location,
                                  !.rows[ref].data.reviews = Append(dupe.reviews, data.reviews[1]),
                                  !.rows[ref].data.types = ArrayFromSet(dupe.types \o data.types, <<>>)]
             ELSE [agg EXCEPT !.uniques = uniques,
                              !.places = Append(@, [key |-> placeId, ref |-> k])]

\* the reducer callback applied to the k-th row outcome
MergeStep(agg, k) ==
    LET row == agg.rows[k] IN
    IF ~row.ok
    THEN [agg EXCEPT !.errors = Append(@, row.data)]
    ELSE LET data == row.data
             placeId == data.location.placeId
             uniques == [types |-> AddAll(agg.uniques.types, data.types),
                         users |-> AddAll(agg.uniques.users,
                                          [r \in 1..Len(data.reviews) |-> data.reviews[r].user]),
                         cities |-> AddAll(agg.uniques.cities, <<data.location.city>>)]
             found == PlacesGet(agg.places, placeId)
         IN  IF found # {}
             THEN LET ref == agg.places[CHOOSE e \in found : TRUE].ref
                      dupe == agg.rows[ref].data
                  IN  [agg EXCEPT !.uniques = uniques,
                                  !.rows[ref].data.reviews = Append(dupe.reviews, data.reviews[1]),
                                  !.rows[ref].data.types = ArrayFromSet(dupe.types \o data.types, <<>>)]
             ELSE [agg EXCEPT !.uniques = uniques,
                              !.places = Append(@, [key |-> placeId, ref |-> k])]

\* rows.reduce(callback, initial): the fold in index order from row k on
RECURSIVE Reduce(_, _)
Reduce(agg, k) ==
    IF k > Len(agg.rows) THEN agg ELSE Reduce(MergeStep(agg, k), k + 1)

\* the value fetchData returns for the list of row outcomes
MergeRows(rows) ==
    LET agg == Reduce(EmptyAgg(rows), 1) IN
    [places |-> [e \in 1..Len(agg.places) |-> agg.rows[agg.places[e].ref].data],
     uniques |-> agg.uniques,
     rows |-> agg.rows,
     errors |-> agg.errors]

\* ------------------------------------------------------------------ inputs
\* metadata responses of the sheet
GoodRange == RangeOf(Some(0), Some(1), Some(6), Some(10))
MetaOf(range) == [ok |-> TRUE, table |-> Some([range |-> Some(range)])]
MetaKinds ==
    { [ok |-> FALSE, table |-> None],
      [ok |-> TRUE, table |-> None],
      [ok |-> TRUE, table |-> Some([range |-> None])],
      MetaOf(GoodRange) }

\* metadata responses whose range has each bound undefined or a small index
Bounds == {None} \cup {Some(n) : n \in 0..MaxBound}
RangeMetas ==
    {MetaOf(RangeOf(sc, sr, ec, er)) : sc \in Bounds, sr \in Bounds, ec \in Bounds, er \in Bounds}

\* formatted texts of the "Tipo" column
TipoBar == <<"B", "a", "r">>
TipoCafeBar == <<"C", "a", "f", "e", ",", " ", "B", "a", "r">>
TipoBarBar == <<"B", "a", "r", ",", " ", "B", "a", "r">>

Num(n) == Some([numberValue |-> Some(n)])
NotNumber == Some([numberValue |-> None])

\* the cells after the link cell: type text, city, user and rank vary together
Profiles ==
    { [tipo |-> Some(TipoBar), city |-> "Lisboa", user |-> "x", rank |-> Num(4)],
      [tipo |-> Some(TipoCafeBar), city |-> "Porto", user |-> "y", rank |-> NotNumber],
      [tipo |-> Some(TipoBarBar), city |-> "Lisboa", user |-> "y", rank |-> Num(0)],
      [tipo |-> None, city |-> "Porto", user |-> "x", rank |-> Num(5)],
      [tipo |-> Some(TipoBar), city |-> "Lisboa", user |-> "x", rank |-> None] }

RowOf(uri, p) ==
    [values |-> Some(<< Cell(p.tipo, None, None),
                        Cell(Some(p.city), None, None),
                        Cell(Some("Tasca"), None, uri),
                        Cell(Some(p.user), None, None),
                        Cell(None, p.rank, None),
                        Cell(None, None, None) >>)]

PlainProfile == [tipo |-> Some(TipoBar), city |-> "Lisboa", user |-> "x", rank |-> Num(4)]
OtherProfile == [tipo |-> Some(TipoCafeBar), city |-> "Porto", user |-> "y", rank |-> NotNumber]

\* a row that ends before the "Google Maps" column, and a row without cells
ShortRow == [values |-> Some(SubSeq(Get(RowOf(None, PlainProfile).values), 1, 2))]
EmptyRow == [values |-> None]

RowKinds ==
    {RowOf(Some(PlaceUrl("Tasca", "P1")), p) : p \in Profiles}
    \cup {RowOf(Some(PlaceUrl("Cafe", "P2")), p) : p \in {PlainProfile, OtherProfile}}
    \cup {RowOf(None, PlainProfile), RowOf(Some(OtherUrl), PlainProfile), ShortRow, EmptyRow}

Tables == UNION {[1..n -> RowKinds] : n \in 0..MaxRows}

\* the two rows of the grid above the data rows
HeaderRows ==
    << [values |-> Some(<<Cell(Some(<<"R">>), None, None)>>)],
       [values |-> Some(<< Cell(Some(<<"T", "i", "p", "o">>), None, None),
                           Cell(Some("Cidade"), None, None),
                           Cell(Some("Google Maps"), None, None),
                           Cell(Some("User"), None, None),
                           Cell(Some("Rank"), None, None),
                           Cell(Some("Notas"), None, None) >>)] >>

\* grid responses: table is the optional sheet.tables[0], placeTypes the
\* optional typeConditions holding its optional values, rowData the optional
\* sheet.data[0].rowData
GoodTable == [columnProperties |-> ColumnProperties, placeTypes |-> Some(Some(<<"Bar", "Cafe">>))]
GridOf(ok, table, rowData) == [ok |-> ok, table |-> table, rowData |-> rowData]
Grids ==
    { GridOf(FALSE, None, None),
      GridOf(TRUE, None, None),
      GridOf(TRUE, Some([GoodTable EXCEPT !.placeTypes = None]), Some(HeaderRows)),
      GridOf(TRUE, Some([GoodTable EXCEPT !.placeTypes = Some(None)]), Some(HeaderRows)),
      GridOf(TRUE, Some(GoodTable), None),
      GridOf(TRUE, Some(GoodTable), Some(SubSeq(HeaderRows, 1, 1))) }
    \cup {GridOf(TRUE, Some(GoodTable), Some(HeaderRows \o t)) : t \in Tables}

\* the body of a successful place lookup
PlaceInfo(placeId) ==
    [location |-> [latitude |-> IF placeId = "P1" THEN 38 ELSE 41,
                   longitude |-> IF placeId = "P1" THEN -9 ELSE -8],
     displayName |-> [text |-> placeId, languageCode |-> "pt"]]

\* ------------------------------------------------------------------- state
VARIABLES
    pc,          \* position of fetchData: start, ranged, rows, done, failed
    sheetMeta,   \* the metadata response getTableRange read (optional)
    tableRange,  \* the address string getTableRange returned
    grid,        \* the grid response fetchData read (optional)
    procs,       \* per data row: the state of its processRow promise
    lookups,     \* per data row: the place lookups it has issued, with their answers
    settled,     \* the data rows whose processRow promise has settled, in that order
    result,      \* what fetchData returned or threw
    placeCache,  \* the edge cache of place lookups: placeId -> res.ok of the stored response
    kv,          \* the value of the KV store under 'sheets-data' (optional)
    req,         \* the loader request in progress or last served (optional)
    requests,    \* the number of loader requests received
    runs,        \* the number of fetchData runs the loader has started
    response,    \* what the loader answered to the last request
    input,       \* the argument of the call of indexToSheetsColumn being followed
    index,       \* its parameter index, which the loop overwrites
    column,      \* its local column
    encodePc,    \* its position: idle, call, loop, returned, thrown
    data,        \* fetcher.data of Home: the loaded dataset (optional)
    filterOptions, \* the options Home derives from data (optional)
    filterState, \* the state of useFilters: the selection of each mode
    shown,       \* the places whose marker is on the map
    event        \* the last call made to Home or to useFilters: its target (a type,
                 \* a user or a number of stars), and for a toggle the count of selected
                 \* options of the mode when it was called

pipelineVars == <<sheetMeta, tableRange, grid, procs, lookups, settled, result>>
loaderVars == <<kv, req, requests, runs, response>>
encodeVars == <<input, index, column, encodePc>>
homeVars == <<data, filterOptions, filterState, shown, event>>
clientVars == <<encodeVars, homeVars>>
vars == <<pc, pipelineVars, placeCache, loaderVars, clientVars>>

\* the edge cache before any lookup
EmptyCache == [id \in {} |-> FALSE]

\* fetchData is called with nothing read yet
PipelineStart ==
    /\ sheetMeta = None
    /\ tableRange = ""
    /\ grid = None
    /\ procs = <<>>
    /\ lookups = <<>>
    /\ settled = <<>>
    /\ result = [kind |-> "none"]

\* one call of fetchData, outside any loader request
\* no call of indexToSheetsColumn is being followed
EncodeIdle ==
    /\ input = 0
    /\ index = 0
    /\ column = ""
    /\ encodePc = "idle"

\* the state useState starts with, and the one reset sets without options
EmptyState == [types |-> {}, users |-> {}, cities |-> {}, ratings |-> {}]

\* a call with no target: of Home's load, or of reset()
EventOf(op) == [op |-> op, mode |-> "", type |-> "", user |-> None, stars |-> 0, count |-> 0]

\* Home is mounted and the dataset has not arrived
HomeIdle ==
    /\ data = None
    /\ filterOptions = None
    /\ filterState = EmptyState
    /\ shown = {}
    /\ event = EventOf("none")

ClientIdle == EncodeIdle /\ HomeIdle

Init ==
    /\ pc = "start"
    /\ PipelineStart
    /\ placeCache = EmptyCache
    /\ kv = None
    /\ req = None
    /\ requests = 0
    /\ runs = 0
    /\ response = [kind |-> "none"]
    /\ ClientIdle

\* fetch(placesURL, {cf: {cacheTtl, cacheEverything: true}}): the stored
\* response of the placeId, if the edge cache holds one
CacheLookup(cache, placeId) ==
    IF placeId \in DOMAIN cache THEN Some(cache[placeId]) ELSE None

\* the edge cache after it has stored the response fetched for placeId
CachePut(cache, placeId, ok) ==
    [id \in DOMAIN cache \cup {placeId} |-> IF id = placeId THEN ok ELSE cache[id]]

\* PromiseAll with the values in the order in which the promises settled
PromiseAll_CompletionOrder(promises, settledOrder) ==
    [k \in 1..Len(promises) |-> promises[settledOrder[k]].value]

\* Promise.all(promises): the fulfilment values, in the order of the promises
PromiseAll(promises, settledOrder) ==
    [i \in 1..Len(promises) |-> promises[i].value]

\* Slice2 that drops one row only
Slice2_One(rowData) == SubSeq(rowData, 2, Len(rowData))

\* rowData.slice(2)
Slice2(rowData) == SubSeq(rowData, 3, Len(rowData))

\* fetchData awaits getTableRange
GetTableRange(meta) ==
    /\ pc = "start"
    /\ sheetMeta' = Some(meta)
    /\ LET r == getTableRange(meta) IN
       IF r.kind = "throw"
       THEN /\ pc' = "failed"
            /\ result' = r
            /\ UNCHANGED tableRange
       ELSE /\ pc' = "ranged"
            /\ tableRange' = r.value
            /\ UNCHANGED result
    /\ UNCHANGED <<grid, procs, lookups, settled, placeCache, loaderVars, clientVars>>

\* fetchData reads the grid, checks it and calls processRow on every data
\* row; each call runs up to its await of the place lookup.
FetchGrid(g) ==
    /\ pc = "ranged"
    /\ grid' = Some(g)
    /\ IF ~g.ok
       THEN /\ pc' = "failed"
            /\ result' = [kind |-> "throw", value |-> "error retrieving google sheets data"]
            /\ UNCHANGED <<procs, lookups, settled>>
       ELSE IF ~IsSome(g.table) \/ ~IsSome(Get(g.table).placeTypes)
       THEN /\ pc' = "failed"
            /\ result' = [kind |-> "throw", value |-> "TypeError"]
            /\ UNCHANGED <<procs, lookups, settled>>
       ELSE IF ~IsSome(g.rowData) \/ ~IsSome(Get(Get(g.table).placeTypes))
       THEN /\ pc' = "failed"
            /\ result' = [kind |-> "throw", value |-> "expected data not found"]
            /\ UNCHANGED <<procs, lookups, settled>>
       ELSE LET rows == Slice2(Get(g.rowData))
                started == [i \in 1..Len(rows) |->
                              ProcessRowStart(rows[i], i - 1, Get(g.table).columnProperties)]
            IN  /\ pc' = "rows"
                /\ procs' = started
                /\ lookups' = [i \in 1..Len(rows) |->
                                  IF started[i].kind = "await"
                                  THEN <<[placeId |-> started[i].placeId, ok |-> None,
                                          cached |-> CacheLookup(placeCache, started[i].placeId)]>>
                                  ELSE <<>>]
                /\ settled' = SelectSeq([i \in 1..Len(rows) |-> i],
                                        LAMBDA i : started[i].kind # "await")
                /\ UNCHANGED result
    /\ UNCHANGED <<sheetMeta, tableRange, placeCache, loaderVars, clientVars>>

\* LookupResponse with a failed lookup issued once more
LookupResponse_Retry(i, ok) ==
    /\ pc = "rows"
    /\ i \in 1..Len(procs)
    /\ procs[i].kind = "await"
    /\ LET lookup == lookups[i][Len(lookups[i])] IN
       IF IsSome(lookup.cached)
       THEN /\ ok = Get(lookup.cached)
            /\ UNCHANGED placeCache
       ELSE \E stored \in (IF ok THEN {TRUE} ELSE BOOLEAN) :
               placeCache' = IF stored THEN CachePut(placeCache, lookup.placeId, ok)
                             ELSE placeCache
    /\ IF ~ok /\ Len(lookups[i]) < 2
       THEN /\ lookups' = [lookups EXCEPT ![i] =
                              Append([@ EXCEPT ![Len(@)].ok = Some(ok)],
                                     [placeId |-> procs[i].placeId, ok |-> None, cached |-> None])]
            /\ UNCHANGED <<procs, settled>>
       ELSE /\ procs' = [procs EXCEPT ![i] =
                            ProcessRowResume(procs[i], [ok |-> ok, body |-> PlaceInfo(procs[i].placeId)])]
            /\ lookups' = [lookups EXCEPT ![i][Len(lookups[i])].ok = Some(ok)]
            /\ settled' = Append(settled, i)
    /\ UNCHANGED <<pc, sheetMeta, tableRange, grid, result, loaderVars, clientVars>>

\* the place lookup of row i answers and its processRow runs to its end.  A
\* lookup that found a stored response when it was issued is answered with
\* it; any other is answered by the places service.  The request asks the
\* edge cache to store whatever comes back (cacheEverything, one cacheTtl for
\* every status): it stores a success, and may store a non-success.
LookupResponse(i, ok) ==
    /\ pc = "rows"
    /\ i \in 1..Len(procs)
    /\ procs[i].kind = "await"
    /\ LET lookup == lookups[i][Len(lookups[i])] IN
       IF IsSome(lookup.cached)
       THEN /\ ok = Get(lookup.cached)
            /\ UNCHANGED placeCache
       ELSE \E stored \in (IF ok THEN {TRUE} ELSE BOOLEAN) :
               placeCache' = IF stored THEN CachePut(placeCache, lookup.placeId, ok)
                             ELSE placeCache
    /\ procs' = [procs EXCEPT ![i] =
                    ProcessRowResume(procs[i], [ok |-> ok, body |-> PlaceInfo(procs[i].placeId)])]
    /\ lookups' = [lookups EXCEPT ![i][Len(lookups[i])].ok = Some(ok)]
    /\ settled' = Append(settled, i)
    /\ UNCHANGED <<pc, sheetMeta, tableRange, grid, result, loaderVars, clientVars>>

\* Promise.all rejects as soon as one processRow has thrown
Reject ==
    /\ pc = "rows"
    /\ \E i \in 1..Len(procs) : procs[i].kind = "throw"
    /\ pc' = "failed"
    /\ result' = [kind |-> "throw", value |-> "TypeError"]
    /\ UNCHANGED <<sheetMeta, tableRange, grid, procs, lookups, settled, placeCache, loaderVars, clientVars>>

\* Promise.all resolves; the reduce runs and fetchData returns
Merge ==
    /\ pc = "rows"
    /\ \A i \in 1..Len(procs) : procs[i].kind = "return"
    /\ pc' = "done"
    /\ result' = [kind |-> "return", value |-> MergeRows(PromiseAll(procs, settled))]
    /\ UNCHANGED <<sheetMeta, tableRange, grid, procs, lookups, settled, placeCache, loaderVars, clientVars>>

Next ==
    \/ \E meta \in MetaKinds : GetTableRange(meta)
    \/ \E g \in Grids : FetchGrid(g)
    \/ \E i \in 1..MaxRows, ok \in BOOLEAN : LookupResponse(i, ok)
    \/ Reject
    \/ Merge

Spec == Init /\ [][Next]_vars

\* getTableRange alone, over every combination of defined and undefined bounds
NextRange == \E meta \in RangeMetas : GetTableRange(meta)

SpecRange == Init /\ [][NextRange]_vars

\* ------------------------------------------------------------------ loader
\* JSON.stringify(output) and JSON.parse(existing).  A property whose value
\* is undefined is left out of the text and reads as undefined after the
\* parse, which is the same optional value here; the text is kept apart from
\* the value it was made of.
JSON_stringify(value) == [json |-> value]
JSON_parse(text) == text.json

\* LoaderRequest reading the KV store whether or not force is given
LoaderRequest_NoForce(force) ==
    /\ pc = "idle"
    /\ requests < MaxRequests
    /\ requests' = requests + 1
    /\ LET existing == kv IN
       IF IsSome(existing)
       THEN /\ response' = [kind |-> "return", value |-> JSON_parse(Get(existing))]
            /\ req' = Some([force |-> force, fromKv |-> TRUE])
            /\ UNCHANGED <<pc, runs, pipelineVars>>
       ELSE /\ pc' = "start"
            /\ req' = Some([force |-> force, fromKv |-> FALSE])
            /\ runs' = runs + 1
            /\ response' = [kind |-> "none"]
            /\ sheetMeta' = None
            /\ tableRange' = ""
            /\ grid' = None
            /\ procs' = <<>>
            /\ lookups' = <<>>
            /\ settled' = <<>>
            /\ result' = [kind |-> "none"]
    /\ UNCHANGED <<kv, placeCache, clientVars>>

\* loader receives a request, one at a time.  Without the force parameter it
\* reads the KV store and answers with the parsed snapshot if there is one;
\* otherwise it calls fetchData.
LoaderRequest(force) ==
    /\ pc = "idle"
    /\ requests < MaxRequests
    /\ requests' = requests + 1
    /\ LET existing == IF ~force THEN kv ELSE None IN
       IF IsSome(existing)
       THEN /\ response' = [kind |-> "return", value |-> JSON_parse(Get(existing))]
            /\ req' = Some([force |-> force, fromKv |-> TRUE])
            /\ UNCHANGED <<pc, runs, pipelineVars>>
       ELSE /\ pc' = "start"
            /\ req' = Some([force |-> force, fromKv |-> FALSE])
            /\ runs' = runs + 1
            /\ response' = [kind |-> "none"]
            /\ sheetMeta' = None
            /\ tableRange' = ""
            /\ grid' = None
            /\ procs' = <<>>
            /\ lookups' = <<>>
            /\ settled' = <<>>
            /\ result' = [kind |-> "none"]
    /\ UNCHANGED <<kv, placeCache, clientVars>>

\* fetchData has returned: loader stores the serialized output and returns it
LoaderPut ==
    /\ pc = "done"
    /\ IsSome(req)
    /\ kv' = Some(JSON_stringify(result.value))
    /\ response' = result
    /\ pc' = "idle"
    /\ UNCHANGED <<pipelineVars, placeCache, req, requests, runs, clientVars>>

\* LoaderThrow with what fetchData threw stored as the snapshot
LoaderThrow_Put ==
    /\ pc = "failed"
    /\ IsSome(req)
    /\ response' = result
    /\ kv' = Some(JSON_stringify(result.value))
    /\ pc' = "idle"
    /\ UNCHANGED <<pipelineVars, placeCache, req, requests, runs, clientVars>>

\* fetchData has thrown: the exception leaves loader
LoaderThrow ==
    /\ pc = "failed"
    /\ IsSome(req)
    /\ response' = result
    /\ pc' = "idle"
    /\ UNCHANGED <<pipelineVars, placeCache, kv, req, requests, runs, clientVars>>

\* the expirationTtl of the snapshot has passed
KvExpire ==
    /\ IsSome(kv)
    /\ kv' = None
    /\ UNCHANGED <<pc, pipelineVars, placeCache, req, requests, runs, response, clientVars>>

\* the cacheTtl of a stored lookup response has passed
CacheExpire(placeId) ==
    /\ placeId \in DOMAIN placeCache
    /\ placeCache' = [id \in DOMAIN placeCache \ {placeId} |-> placeCache[id]]
    /\ UNCHANGED <<pc, pipelineVars, loaderVars, clientVars>>

\* sheets of at most MaxLoaderRows data rows, for a sequence of requests
LoaderRowKinds ==
    { RowOf(Some(PlaceUrl("Tasca", "P1")), PlainProfile),
      RowOf(Some(PlaceUrl("Tasca", "P1")),
            [tipo |-> Some(TipoBar), city |-> "Lisboa", user |-> "x", rank |-> None]),
      RowOf(None, PlainProfile) }
LoaderMetas == {MetaOf(GoodRange), [ok |-> TRUE, table |-> None]}
LoaderGrids ==
    { GridOf(FALSE, None, None),
      GridOf(TRUE, Some([GoodTable EXCEPT !.placeTypes = Some(None)]), Some(HeaderRows)) }
    \cup {GridOf(TRUE, Some(GoodTable), Some(HeaderRows \o t)) :
            t \in UNION {[1..n -> LoaderRowKinds] : n \in 0..MaxLoaderRows}}

InitLoader ==
    /\ pc = "idle"
    /\ PipelineStart
    /\ placeCache = EmptyCache
    /\ kv = None
    /\ req = None
    /\ requests = 0
    /\ runs = 0
    /\ response = [kind |-> "none"]
    /\ ClientIdle

NextLoader ==
    \/ \E force \in BOOLEAN : LoaderRequest(force)
    \/ \E meta \in LoaderMetas : GetTableRange(meta)
    \/ \E g \in LoaderGrids : FetchGrid(g)
    \/ \E i \in 1..MaxLoaderRows, ok \in BOOLEAN : LookupResponse(i, ok)
    \/ Reject
    \/ Merge
    \/ LoaderPut
    \/ LoaderThrow
    \/ KvExpire
    \/ \E placeId \in {"P1", "P2"} : CacheExpire(placeId)

SpecLoader == InitLoader /\ [][NextLoader]_vars

\* ------------------------------------------- indexToSheetsColumn, stepwise
\* the call: the guard on a negative index, then the first test of the loop
EncodeCall ==
    /\ encodePc = "call"
    /\ IF index < 0
       THEN encodePc' = "thrown"
       ELSE encodePc' = "loop"
    /\ UNCHANGED <<input, index, column, pc, pipelineVars, placeCache, loaderVars, homeVars>>

\* EncodeLoop with the letter put after the letters found so far
EncodeLoop_Append ==
    /\ encodePc = "loop"
    /\ LET remainder == index % 26 IN
       /\ column' = column \o ALPHABET[remainder + 1]
       /\ index' = (index \div 26) - 1
    /\ encodePc' = IF index' < 0 THEN "returned" ELSE "loop"
    /\ UNCHANGED <<input, pc, pipelineVars, placeCache, loaderVars, homeVars>>

\* one iteration of the while loop, up to its break or its next test
EncodeLoop ==
    /\ encodePc = "loop"
    /\ LET remainder == index % 26 IN
       /\ column' = ALPHABET[remainder + 1] \o column
       /\ index' = (index \div 26) - 1
    /\ encodePc' = IF index' < 0 THEN "returned" ELSE "loop"
    /\ UNCHANGED <<input, pc, pipelineVars, placeCache, loaderVars, homeVars>>

\* indexToSheetsColumn is called with an integer
InitColumn ==
    /\ pc = "start"
    /\ PipelineStart
    /\ placeCache = EmptyCache
    /\ kv = None
    /\ req = None
    /\ requests = 0
    /\ runs = 0
    /\ response = [kind |-> "none"]
    /\ input \in (0 - MaxNegative)..MaxIndex
    /\ index = input
    /\ column = ""
    /\ encodePc = "call"
    /\ HomeIdle

NextColumn == EncodeCall \/ EncodeLoop

\* a call that has started runs on: nothing else runs in the function
SpecColumn == InitColumn /\ [][NextColumn]_vars /\ WF_vars(NextColumn)

\* =============================================================== properties
\* the data rows fetchData handed to processRow, and their outcomes
RowAt(i) == Slice2(Get(Get(grid).rowData))[i]
Ok(i) == procs[i].kind = "return" /\ procs[i].value.ok
IdOf(i) == procs[i].value.data.location.placeId
Artifact == result.value
ToSet(seq) == {seq[k] : k \in 1..Len(seq)}

\* position of a column in the table
ColumnOf(name) == CHOOSE c \in 1..Len(ColumnProperties) : ColumnProperties[c].columnName = name
HasCell(row, name) == IsSome(row.values) /\ Len(Get(row.values)) >= ColumnOf(name)
CellOf(row, name) == Get(row.values)[ColumnOf(name)]

\* the reviews, and the types, of the successful rows of an identity from
\* row i on, in row order
RECURSIVE ReviewsFrom(_, _)
ReviewsFrom(id, i) ==
    IF i > Len(procs) THEN <<>>
    ELSE (IF Ok(i) /\ IdOf(i) = id THEN procs[i].value.data.reviews ELSE <<>>)
         \o ReviewsFrom(id, i + 1)

RECURSIVE TypesFrom(_, _)
TypesFrom(id, i) ==
    IF i > Len(procs) THEN <<>>
    ELSE (IF Ok(i) /\ IdOf(i) = id THEN procs[i].value.data.types ELSE <<>>)
         \o TypesFrom(id, i + 1)

\* C1: after the merge, the place of every identity holds exactly the reviews
\* of the successfully processed rows with that identity, in row order.
C1_ReviewsPerIdentity ==
    pc = "done" =>
        \A i \in 1..Len(procs) :
            Ok(i) =>
                /\ \E e \in 1..Len(Artifact.places) :
                      Artifact.places[e].location.placeId = IdOf(i)
                /\ \A e \in 1..Len(Artifact.places) :
                      Artifact.places[e].location.placeId = IdOf(i)
                          => Artifact.places[e].reviews = ReviewsFrom(IdOf(i), 1)

\* two successful rows of one identity with different reviews were merged
C1_Witness ==
    /\ pc = "done"
    /\ \E e \in 1..Len(Artifact.places) :
          /\ Len(Artifact.places[e].reviews) = 2
          /\ Artifact.places[e].reviews[1] # Artifact.places[e].reviews[2]

\* C2: the types of every place are the union of the types of the successful
\* rows of its identity, without duplicates, in order of first appearance.
C2_TypesUnion ==
    pc = "done" =>
        \A e \in 1..Len(Artifact.places) :
            Artifact.places[e].types =
                ArrayFromSet(TypesFrom(Artifact.places[e].location.placeId, 1), <<>>)

\* C3: uniques.types, uniques.users and uniques.cities are the distinct values
\* found by scanning the returned places.
C3_UniquesFromPlaces ==
    pc = "done" =>
        LET places == Artifact.places IN
        /\ ToSet(Artifact.uniques.types) =
              UNION {ToSet(places[e].types) : e \in 1..Len(places)}
        /\ ToSet(Artifact.uniques.users) =
              UNION {{places[e].reviews[r].user : r \in 1..Len(places[e].reviews)} :
                       e \in 1..Len(places)}
        /\ ToSet(Artifact.uniques.cities) =
              {places[e].location.city : e \in 1..Len(places)}

\* the rich-link URI of the row is absent
LinkAbsent(row) ==
    \/ ~HasCell(row, "Google Maps")
    \/ NoMapsUrl(CellOf(row, "Google Maps").chipUri)

\* C4: a row without the rich-link URI yields one failure outcome saying that
\* the maps URL is missing, issues no lookup, and its Error is in the errors
\* of the artifact exactly once.
C4_MissingLink ==
    \A i \in 1..Len(procs) :
        LinkAbsent(RowAt(i)) =>
            /\ procs[i].kind = "return"
            /\ ~procs[i].value.ok
            /\ procs[i].value.data.error = "No maps URL in row " \o ToString(i - 1)
            /\ lookups[i] = <<>>
            /\ pc = "done" =>
                  Cardinality({k \in 1..Len(Artifact.errors) :
                                  Artifact.errors[k] = procs[i].value.data}) = 1

\* the identity the pattern extracts from the link of a row
IdentityOf(row) == PLACE_REGEXP_exec(Get(CellOf(row, "Google Maps").chipUri))[2]
LookupFailed(i) == lookups[i] # <<>> /\ lookups[i][1].ok = Some(FALSE)

\* C5: a row whose lookup answered with a non-success response yields a
\* failure outcome whose meta.placeId is the identity extracted from its
\* link, and no place; the failure is among the errors of the artifact.
C5_LookupFailure ==
    \A i \in 1..Len(procs) :
        LookupFailed(i) =>
            /\ procs[i].kind = "return"
            /\ ~procs[i].value.ok
            /\ "placeId" \in DOMAIN procs[i].value.data.meta
            /\ procs[i].value.data.meta.placeId = IdentityOf(RowAt(i))
            /\ pc = "done" =>
                  /\ \E k \in 1..Len(Artifact.errors) : Artifact.errors[k] = procs[i].value.data
                  /\ (\A j \in 1..Len(procs) : Ok(j) => IdOf(j) # IdentityOf(RowAt(i)))
                        => \A e \in 1..Len(Artifact.places) :
                              Artifact.places[e].location.placeId # IdentityOf(RowAt(i))

\* a failed lookup is in the artifact as an error
C5_Witness ==
    /\ pc = "done"
    /\ \E i \in 1..Len(procs) : LookupFailed(i)

\* the rating cell of a complete row is empty or holds no number
RatingMissing(row) ==
    /\ HasCell(row, "Notas")
    /\ \/ ~IsSome(CellOf(row, "Rank").effectiveValue)
       \/ ~IsSome(Get(CellOf(row, "Rank").effectiveValue).numberValue)

\* C6: a row with a link, an identity and a successful lookup whose rating is
\* missing or not a number is a success whose review has ranking 0.
C6_MissingRatingIsZero ==
    \A i \in 1..Len(procs) :
        (/\ lookups[i] # <<>>
         /\ lookups[i][1].ok = Some(TRUE)
         /\ RatingMissing(RowAt(i)))
            => /\ Ok(i)
               /\ procs[i].value.data.reviews[1].ranking = 0

\* the type field of the row is not empty
TipoNonEmpty(row) ==
    /\ HasCell(row, "Tipo")
    /\ IsSome(CellOf(row, "Tipo").formattedValue)
    /\ Get(CellOf(row, "Tipo").formattedValue) # <<>>

\* C7: every returned place has at least one review, and a place that a row
\* with a non-empty type field went into has a non-empty types list.
C7_ReviewsAndTypesNonEmpty ==
    pc = "done" =>
        \A e \in 1..Len(Artifact.places) :
            /\ Len(Artifact.places[e].reviews) >= 1
            /\ \A i \in 1..Len(procs) :
                  (/\ Ok(i)
                   /\ IdOf(i) = Artifact.places[e].location.placeId
                   /\ TipoNonEmpty(RowAt(i)))
                      => Artifact.places[e].types # <<>>

\* a place merged from a row with types and a later row without a type field
C7_Witness ==
    /\ pc = "done"
    /\ Len(procs) = 2
    /\ Ok(1) /\ Ok(2) /\ IdOf(1) = IdOf(2)
    /\ TipoNonEmpty(RowAt(1)) /\ ~TipoNonEmpty(RowAt(2))

\* the metadata was read and holds no table, or a table without a range
TableNotFound ==
    /\ IsSome(sheetMeta)
    /\ Get(sheetMeta).ok
    /\ \/ ~IsSome(Get(sheetMeta).table)
       \/ ~IsSome(Get(Get(sheetMeta).table).range)

\* C8: when the table or its range is not found the pipeline has thrown,
\* without reading the grid, processing a row, issuing a lookup or returning
\* an artifact.
C8_RangeNotFoundFatal ==
    TableNotFound =>
        /\ pc = "failed"
        /\ result.kind = "throw"
        /\ grid = None
        /\ procs = <<>>
        /\ lookups = <<>>

C8_Witness == TableNotFound /\ pc = "failed"

\* the range of the table, or one of its four bounds, is missing
BoundsMissing(meta) ==
    /\ meta.ok
    /\ IsSome(meta.table)
    /\ \/ ~IsSome(Get(meta.table).range)
       \/ LET r == Get(Get(meta.table).range) IN
          \/ ~IsSome(r.startColumnIndex) \/ ~IsSome(r.startRowIndex)
          \/ ~IsSome(r.endColumnIndex) \/ ~IsSome(r.endRowIndex)

\* C9: getTableRange fails, and returns no address string, whenever the range
\* or one of its bounds is missing.
C9_MissingBoundsFail ==
    (IsSome(sheetMeta) /\ BoundsMissing(Get(sheetMeta))) =>
        /\ pc = "failed"
        /\ tableRange = ""

\* row i failed in one of the expected ways: its link cell holds no URI, its
\* URI does not match the pattern, or its lookup answered with a non-success
ExpectedFailure(i) ==
    \/ /\ HasCell(RowAt(i), "Google Maps")
       /\ \/ NoMapsUrl(CellOf(RowAt(i), "Google Maps").chipUri)
          \/ PLACE_REGEXP_exec(Get(CellOf(RowAt(i), "Google Maps").chipUri)) = <<>>
    \/ LookupFailed(i)

\* C10: a row that fails in an expected way has a tagged failure outcome, the
\* pipeline does not abort, and the artifact it returns holds the error and
\* the places and reviews of the other rows.
C10_ExpectedFailuresTolerated ==
    \A i \in 1..Len(procs) :
        ExpectedFailure(i) =>
            /\ procs[i].kind = "return"
            /\ ~procs[i].value.ok
            /\ pc # "failed"
            /\ pc = "done" =>
                  /\ \E k \in 1..Len(Artifact.errors) : Artifact.errors[k] = procs[i].value.data
                  /\ \A j \in 1..Len(procs) :
                        Ok(j) => \E e \in 1..Len(Artifact.places) :
                                    /\ Artifact.places[e].location.placeId = IdOf(j)
                                    /\ \E r \in 1..Len(Artifact.places[e].reviews) :
                                          Artifact.places[e].reviews[r] = procs[j].value.data.reviews[1]

\* the outcome of row i computed from the row and the answer of its lookup
\* alone, and the outcomes of all rows in row order
OutcomeOf(i) ==
    LET st == ProcessRowStart(RowAt(i), i - 1, Get(Get(grid).table).columnProperties) IN
    IF st.kind = "await"
    THEN ProcessRowResume(st, [ok |-> Get(lookups[i][1].ok), body |-> PlaceInfo(st.placeId)]).value
    ELSE st.value
OutcomesInRowOrder == [i \in 1..Len(procs) |-> OutcomeOf(i)]

\* C11: the merge runs only when every processRow has returned, and the
\* artifact is the fold, in row order, of the outcomes that the rows and the
\* answers of their lookups determine, whatever the order of completion.
C11_MergeAfterJoinInRowOrder ==
    pc = "done" =>
        /\ \A i \in 1..Len(procs) : procs[i].kind = "return"
        /\ ToSet(settled) = 1..Len(procs)
        /\ Artifact = MergeRows(OutcomesInRowOrder)

\* two rows of one place were merged after the lookup of the second row
\* answered before the lookup of the first
C11_Witness ==
    /\ pc = "done"
    /\ settled = <<2, 1>>
    /\ Ok(1) /\ Ok(2) /\ IdOf(1) = IdOf(2)
    /\ procs[1].value.data.reviews # procs[2].value.data.reviews

\* the header rows are the only rows of a grid that has all the expected data
ZeroDataRows ==
    /\ IsSome(grid)
    /\ Get(grid).ok
    /\ IsSome(Get(grid).table)
    /\ IsSome(Get(Get(grid).table).placeTypes)
    /\ IsSome(Get(Get(Get(grid).table).placeTypes))
    /\ IsSome(Get(grid).rowData)
    /\ Len(Get(Get(grid).rowData)) <= 2

\* C12: with no data row below the header no row is processed, no lookup is
\* issued, the merge can run, and the artifact it returns has no place, no
\* error and empty uniques.
C12_EmptyTable ==
    ZeroDataRows =>
        /\ pc \in {"rows", "done", "idle"}
        /\ procs = <<>>
        /\ lookups = <<>>
        /\ pc = "rows" => ENABLED Merge
        /\ pc = "done" =>
              /\ result.kind = "return"
              /\ Artifact.places = <<>>
              /\ Artifact.errors = <<>>
              /\ Artifact.uniques = [types |-> <<>>, users |-> <<>>, cities |-> <<>>]

C12_Witness == ZeroDataRows /\ pc = "done" /\ Len(Get(Get(grid).rowData)) = 2

\* the accumulator of the reduce after its first n steps
RECURSIVE ReducePrefix(_, _)
ReducePrefix(rows, n) ==
    IF n = 0 THEN EmptyAgg(rows) ELSE MergeStep(ReducePrefix(rows, n - 1), n)

\* C13: in the reduce of a returned artifact, the step on a failure outcome
\* appends that failure to the errors and changes neither the places, nor the
\* objects they refer to, nor the uniques.
C13_FailureStepFrame ==
    pc = "done" =>
        \A k \in 1..Len(procs) :
            ~procs[k].value.ok =>
                LET before == ReducePrefix(PromiseAll(procs, settled), k - 1)
                    after == MergeStep(before, k)
                IN  /\ after.errors = Append(before.errors, procs[k].value.data)
                    /\ after.places = before.places
                    /\ after.rows = before.rows
                    /\ after.uniques = before.uniques

\* a failure was folded after a success
C13_Witness ==
    /\ pc = "done"
    /\ Len(procs) = 2
    /\ Ok(1)
    /\ ~procs[2].value.ok

\* the row lacks the cell of a recognized column
Malformed(row) ==
    \E c \in 1..Len(ColumnProperties) : ~HasCell(row, ColumnProperties[c].columnName)

\* C14: a row that lacks the cell of a recognized column does not throw: its
\* processRow returns a failure outcome, and fetchData does not reject
\* because of it.
C14_MalformedRowIsRowLocalError ==
    \A i \in 1..Len(procs) :
        Malformed(RowAt(i)) =>
            /\ procs[i].kind # "throw"
            /\ procs[i].kind = "return" => ~procs[i].value.ok
            /\ (\A j \in 1..Len(procs) : j # i => procs[j].kind # "throw") => pc # "failed"

\* C15: the meta of every failure outcome holds the index of the row and the
\* record of its cells, and holds a placeId exactly when the pattern matched
\* the link of the row.
C15_ErrorContext ==
    \A i \in 1..Len(procs) :
        (procs[i].kind = "return" /\ ~procs[i].value.ok) =>
            LET meta == procs[i].value.data.meta
                uri == CellOf(RowAt(i), "Google Maps").chipUri
            IN  /\ "rowData" \in DOMAIN meta
                /\ meta.rowData = RowExtract(RowAt(i), ColumnProperties).value
                /\ "placeId" \in DOMAIN meta <=>
                      (~NoMapsUrl(uri) /\ PLACE_REGEXP_exec(Get(uri)) # <<>>)
                /\ "placeId" \in DOMAIN meta => meta.placeId = IdentityOf(RowAt(i))
                /\ "rowIdx" \in DOMAIN meta
                /\ meta.rowIdx = i - 1

\* the first successful row with the identity placeId
FirstOk(placeId) ==
    CHOOSE i \in 1..Len(procs) :
        /\ Ok(i) /\ IdOf(i) = placeId
        /\ \A j \in 1..Len(procs) : (Ok(j) /\ IdOf(j) = placeId) => i <= j

\* C16: the location of a returned place is the location of the first
\* successful row with its identity; no step of the reduce changes the
\* location of a place or removes a place, and every successful row has the
\* place of its identity in the artifact.
C16_FirstSeenLocation ==
    pc = "done" =>
        /\ \A e \in 1..Len(Artifact.places) :
              Artifact.places[e].location =
                  procs[FirstOk(Artifact.places[e].location.placeId)].value.data.location
        /\ \A i \in 1..Len(procs) :
              Ok(i) => \E e \in 1..Len(Artifact.places) :
                          Artifact.places[e].location.placeId = IdOf(i)
        /\ \A k \in 1..Len(procs) :
              LET before == ReducePrefix(PromiseAll(procs, settled), k - 1)
                  after == MergeStep(before, k)
              IN  /\ Len(after.places) >= Len(before.places)
                  /\ \A e \in 1..Len(before.places) :
                        /\ after.places[e] = before.places[e]
                        /\ after.rows[before.places[e].ref].data.location =
                              before.rows[before.places[e].ref].data.location

\* two successful rows of one identity that name different cities were merged
C16_Witness ==
    /\ pc = "done"
    /\ Len(procs) = 2
    /\ Ok(1) /\ Ok(2) /\ IdOf(1) = IdOf(2)
    /\ procs[1].value.data.location # procs[2].value.data.location
    /\ Len(Artifact.places) = 1

\* the pattern matches the link of the row
IdentityExtracted(row) ==
    /\ HasCell(row, "Google Maps")
    /\ ~NoMapsUrl(CellOf(row, "Google Maps").chipUri)
    /\ PLACE_REGEXP_exec(Get(CellOf(row, "Google Maps").chipUri)) # <<>>

\* the failure outcomes of the rows, in row order
FailuresInRowOrder ==
    LET failed == SelectSeq([i \in 1..Len(procs) |-> i], LAMBDA i : ~procs[i].value.ok)
    IN  [k \in 1..Len(failed) |-> procs[failed[k]].value.data]

\* C17: a row issues one lookup when the pattern matches its link and none
\* otherwise, never a second one; a failed lookup ends its row with a failure
\* outcome, and the errors of the artifact hold each failure once.
C17_OneLookupPerRow ==
    /\ Len(lookups) = Len(procs)
    /\ \A i \in 1..Len(procs) :
          /\ Len(lookups[i]) = IF IdentityExtracted(RowAt(i)) THEN 1 ELSE 0
          /\ LookupFailed(i) => (procs[i].kind = "return" /\ ~procs[i].value.ok)
    /\ pc = "done" => Artifact.errors = FailuresInRowOrder

\* a run ended with a failed lookup of one row and no lookup for the other
C17_Witness ==
    /\ pc = "done"
    /\ \E i, j \in 1..Len(procs) :
          /\ LookupFailed(i)
          /\ lookups[j] = <<>>
          /\ ~IdentityExtracted(RowAt(j))

\* a step in which loader receives a request
RequestStep == pc = "idle" /\ requests' = requests + 1

\* C18: a request is answered with the parsed snapshot, without a run of
\* fetchData, exactly when it has no force parameter and the KV store holds
\* a snapshot; every other request starts one run, and when the run returns
\* loader answers with its output and stores that output as the snapshot.
C18_SnapshotOrRun ==
    [][ /\ RequestStep =>
              IF ~Get(req').force /\ IsSome(kv)
              THEN /\ response' = [kind |-> "return", value |-> JSON_parse(Get(kv))]
                   /\ runs' = runs
                   /\ pc' = "idle"
                   /\ kv' = kv
              ELSE /\ pc' = "start"
                   /\ runs' = runs + 1
                   /\ response'.kind = "none"
        /\ ~RequestStep => runs' = runs
        /\ (pc = "done" /\ pc' = "idle") =>
              /\ result.kind = "return"
              /\ response' = result
              /\ kv' = Some(JSON_stringify(result.value))
        /\ (pc = "failed" /\ pc' = "idle") =>
              /\ response' = result
              /\ response'.kind = "throw" ]_vars

\* the first request found no snapshot and ran fetchData, the second was
\* answered with the snapshot that the first one stored
C18_Witness ==
    /\ pc = "idle"
    /\ requests = 2
    /\ runs = 1
    /\ IsSome(req) /\ Get(req).fromKv /\ ~Get(req).force
    /\ response.kind = "return"
    /\ IsSome(kv) /\ response.value = JSON_parse(Get(kv))

\* C19: no lookup of any run is answered with a stored non-success response,
\* so the lookup of an identity that failed in one run is sent to the places
\* service again in the next run.
C19_FailuresNotCached ==
    \A i \in 1..Len(lookups) :
        \A k \in 1..Len(lookups[i]) :
            lookups[i][k].cached # Some(FALSE)

\* the orders in which the rows of the sheet can stand
RowOrders(n) ==
    {f \in [1..n -> 1..n] : \A a, b \in 1..n : f[a] = f[b] => a = b}

\* the outcomes of the rows when row f[j] stands at position j and every
\* lookup gets the answer it got
PermutedOutcomes(f) ==
    [j \in 1..Len(procs) |->
        LET st == ProcessRowStart(RowAt(f[j]), j - 1, Get(Get(grid).table).columnProperties) IN
        IF st.kind = "await"
        THEN ProcessRowResume(st, [ok |-> Get(lookups[f[j]][1].ok),
                                   body |-> PlaceInfo(st.placeId)]).value
        ELSE st.value]

\* C20: in whatever order the rows of the sheet stand, the reduce gives
\* uniques with the same sets of types, users and cities, and the reduce of
\* the same rows again gives the same uniques.
C20_UniquesOrderIndependent ==
    pc = "done" =>
        /\ MergeRows(OutcomesInRowOrder).uniques = Artifact.uniques
        /\ \A f \in RowOrders(Len(procs)) :
              LET uniques == MergeRows(PermutedOutcomes(f)).uniques IN
              /\ ToSet(uniques.types) = ToSet(Artifact.uniques.types)
              /\ ToSet(uniques.users) = ToSet(Artifact.uniques.users)
              /\ ToSet(uniques.cities) = ToSet(Artifact.uniques.cities)

\* the uniques of a sheet whose two rows of one place name two cities
C20_Witness ==
    /\ pc = "done"
    /\ Len(procs) = 2
    /\ Ok(1) /\ Ok(2) /\ IdOf(1) = IdOf(2)
    /\ Cardinality(ToSet(Artifact.uniques.cities)) = 2
    /\ Artifact.uniques.cities[1] = procs[1].value.data.location.city

\* the bijective base-26 numeral of m >= 1, digits A = 1 .. Z = 26
RECURSIVE BijectiveNumeral(_)
BijectiveNumeral(m) ==
    LET digit == ((m - 1) % 26) + 1 IN
    IF m <= 26 THEN ALPHABET[m]
    ELSE BijectiveNumeral((m - digit) \div 26) \o ALPHABET[digit]

\* C21: a call of indexToSheetsColumn ends; it throws exactly for a negative
\* index, and for n >= 0 it returns the bijective base-26 numeral of n + 1
\* (0 -> A, 25 -> Z, 26 -> AA, 27 -> AB, 701 -> ZZ, 702 -> AAA), which no
\* smaller index gives.
C21_BijectiveBase26 ==
    /\ [](encodePc = "returned" =>
            /\ input >= 0
            /\ column = BijectiveNumeral(input + 1)
            /\ column = indexToSheetsColumn(Some(input)).value
            /\ \A m \in 0..(input - 1) : indexToSheetsColumn(Some(m)).value # column
            /\ input = 0 => column = "A"
            /\ input = 25 => column = "Z"
            /\ input = 26 => column = "AA"
            /\ input = 27 => column = "AB"
            /\ input = 701 => column = "ZZ"
            /\ input = 702 => column = "AAA")
    /\ [](encodePc = "thrown" =>
            /\ input < 0
            /\ indexToSheetsColumn(Some(input)).kind = "throw")
    /\ [](input < 0 => encodePc \in {"call", "thrown"})
    /\ <>(encodePc \in {"returned", "thrown"})

\* the call for index 702 has returned after three iterations
C21_Witness == encodePc = "returned" /\ input = 702 /\ column = "AAA"

\* ------------------------------------------------- home.tsx, useFilters
N_STARS == 5

\* rows of loaded sheets: a row without type text, and a row ranked 7
NoTipoProfile == [tipo |-> None, city |-> "Porto", user |-> "x", rank |-> Num(5)]
SevenProfile == [tipo |-> Some(TipoBar), city |-> "Lisboa", user |-> "y", rank |-> Num(7)]
HomeTables ==
    { <<>>,
      <<RowOf(Some(PlaceUrl("Tasca", "P1")), PlainProfile),
        RowOf(Some(PlaceUrl("Cafe", "P2")), OtherProfile)>>,
      <<RowOf(Some(PlaceUrl("Tasca", "P1")), PlainProfile),
        RowOf(Some(PlaceUrl("Cafe", "P2")), NoTipoProfile)>>,
      <<RowOf(Some(PlaceUrl("Tasca", "P1")), OtherProfile),
        RowOf(Some(PlaceUrl("Cafe", "P2")), SevenProfile)>> }

\* the type order lists of the sheets
OrderLists == {<<"Cafe", "Bar">>, <<"Cafe">>}

\* what /api/data answers for a sheet with these rows when every lookup
\* succeeds, with the type order list of the sheet
DatasetOf(rows, order) ==
    LET outcomes == [i \in 1..Len(rows) |->
                        LET st == ProcessRowStart(rows[i], i - 1, ColumnProperties) IN
                        ProcessRowResume(st, [ok |-> TRUE, body |-> PlaceInfo(st.placeId)]).value]
        artifact == MergeRows(outcomes)
    IN  [order |-> [types |-> order],
         places |-> artifact.places,
         uniques |-> artifact.uniques,
         errors |-> artifact.errors]

Datasets == {DatasetOf(rows, order) : rows \in HomeTables, order \in OrderLists}

\* filterOptions of Home; an option is modelled by its value (the color of a
\* type option takes no part in filtering)
FilterOptionsOf(d) ==
    [types |-> SelectSeq(d.order.types,
                         LAMBDA value : \E k \in 1..Len(d.uniques.types) :
                                            d.uniques.types[k] = value),
     users |-> d.uniques.users,
     cities |-> d.uniques.cities,
     ratings |-> [maxStars |-> N_STARS]]

\* possibleRatings counting the stars from one
possibleRatings_OneBased(options) ==
    IF ~IsSome(options) THEN <<>>
    ELSE [idx \in 1..(Get(options).ratings.maxStars + 1) |-> idx]

\* possibleRatings of useFilters
possibleRatings(options) ==
    IF ~IsSome(options) THEN <<>>
    ELSE [idx \in 1..(Get(options).ratings.maxStars + 1) |-> idx - 1]

\* the object reset builds from the options: every option of every mode
FullState(options) ==
    [types |-> ToSet(Get(options).types),
     users |-> ToSet(Get(options).users),
     cities |-> ToSet(Get(options).cities),
     ratings |-> ToSet(possibleRatings(options))]

\* reset(mode) of useFilters applied to the state curr; mode is optional
reset(curr, options, mode) ==
    IF ~IsSome(options) THEN EmptyState
    ELSE IF IsSome(mode)
    THEN [curr EXCEPT ![Get(mode)] = FullState(options)[Get(mode)]]
    ELSE FullState(options)

\* mutate without the refill of a selection that became empty
mutate_NoRefill(curr, options, target) ==
    LET isFull == IF target.mode = "ratings"
                  THEN Cardinality(curr[target.mode]) = Get(options).ratings.maxStars + 1
                  ELSE Cardinality(curr[target.mode]) = Len(Get(options)[target.mode])
        cleared == IF isFull THEN {} ELSE curr[target.mode]
        copy == IF target.key \in cleared
                THEN cleared \ {target.key}
                ELSE cleared \cup {target.key}
    IN  [curr EXCEPT ![target.mode] = copy]

\* mutate without the clearing of a full selection
mutate_NoClear(curr, options, target) ==
    LET cleared == curr[target.mode]
        toggled == IF target.key \in cleared
                   THEN cleared \ {target.key}
                   ELSE cleared \cup {target.key}
        copy == IF Cardinality(toggled) = 0
                THEN IF target.mode = "ratings"
                     THEN ToSet(possibleRatings(options))
                     ELSE ToSet(Get(options)[target.mode])
                ELSE toggled
    IN  [curr EXCEPT ![target.mode] = copy]

\* mutate(curr, target) of toggle, with options defined
mutate(curr, options, target) ==
    LET isFull == IF target.mode = "ratings"
                  THEN Cardinality(curr[target.mode]) = Get(options).ratings.maxStars + 1
                  ELSE Cardinality(curr[target.mode]) = Len(Get(options)[target.mode])
        cleared == IF isFull THEN {} ELSE curr[target.mode]
        toggled == IF target.key \in cleared
                   THEN cleared \ {target.key}
                   ELSE cleared \cup {target.key}
        copy == IF Cardinality(toggled) = 0
                THEN IF target.mode = "ratings"
                     THEN ToSet(possibleRatings(options))
                     ELSE ToSet(Get(options)[target.mode])
                ELSE toggled
    IN  [curr EXCEPT ![target.mode] = copy]

\* toggle(target) of useFilters applied to the state curr
toggle(curr, options, target) ==
    IF ~IsSome(options) THEN curr ELSE mutate(curr, options, target)

\* toggleFilter of the Filters component, the earlier filter of types
toggleFilter(state, filters, typ) ==
    LET newState == IF Cardinality(state) = Len(filters) THEN {typ}
                    ELSE IF typ \in state THEN state \ {typ}
                    ELSE state \cup {typ}
    IN  IF Cardinality(newState) = 0 THEN ToSet(filters) ELSE newState

\* sets of a marker: the types, the users and the rankings of its place
MarkerSets(place) ==
    [types |-> ToSet(place.types),
     users |-> {place.reviews[r].user : r \in 1..Len(place.reviews)},
     rankings |-> {place.reviews[r].ranking : r \in 1..Len(place.reviews)}]

isVisible(sets, state) ==
    /\ Cardinality(sets.rankings \cap state.ratings) > 0
    /\ Cardinality(sets.users \cap state.users) > 0
    /\ Cardinality(sets.types \cap state.types) > 0

\* the effect on [markers, filterState]: the places whose marker is added
Visible(d, state) ==
    IF ~IsSome(d) THEN {}
    ELSE {i \in 1..Len(Get(d).places) : isVisible(MarkerSets(Get(d).places[i]), state)}

\* the dataset arrives: Home derives the options, the effect of useFilters
\* on [options] calls reset(), and the markers are put on the map
HomeLoad(d) ==
    /\ data = None
    /\ data' = Some(d)
    /\ filterOptions' = Some(FilterOptionsOf(d))
    /\ filterState' = reset(filterState, filterOptions', None)
    /\ shown' = Visible(data', filterState')
    /\ event' = EventOf("load")
    /\ UNCHANGED <<pc, pipelineVars, placeCache, loaderVars, encodeVars>>

\* a click on an option of the sidebar
FilterToggle(target) ==
    /\ IsSome(filterOptions)
    /\ IF target.mode = "ratings"
       THEN target.key \in ToSet(possibleRatings(filterOptions))
       ELSE target.key \in ToSet(Get(filterOptions)[target.mode])
    /\ event' = [EventOf("toggle") EXCEPT
                    !.mode = target.mode,
                    !.type = IF target.mode = "types" THEN target.key ELSE @,
                    !.user = IF target.mode = "users" THEN target.key ELSE @,
                    !.stars = IF target.mode = "ratings" THEN target.key ELSE @,
                    !.count = Cardinality(filterState[target.mode])]
    /\ filterState' = toggle(filterState, filterOptions, target)
    /\ shown' = Visible(data, filterState')
    /\ UNCHANGED <<data, filterOptions, pc, pipelineVars, placeCache, loaderVars, encodeVars>>

\* a click on "Todos" (reset of the open tab) or on "Estado Inicial" (reset())
FilterReset(mode) ==
    /\ IsSome(filterOptions)
    /\ filterState' = reset(filterState, filterOptions, mode)
    /\ shown' = Visible(data, filterState')
    /\ event' = IF IsSome(mode) THEN [EventOf("reset") EXCEPT !.mode = Get(mode)]
                ELSE EventOf("reset")
    /\ UNCHANGED <<data, filterOptions, pc, pipelineVars, placeCache, loaderVars, encodeVars>>

InitHome ==
    /\ pc = "start"
    /\ PipelineStart
    /\ placeCache = EmptyCache
    /\ kv = None
    /\ req = None
    /\ requests = 0
    /\ runs = 0
    /\ response = [kind |-> "none"]
    /\ ClientIdle

NextHome ==
    \/ \E d \in Datasets : HomeLoad(d)
    \/ \E key \in {"Bar", "Cafe"} : FilterToggle([mode |-> "types", key |-> key])
    \/ \E key \in {Some("x"), Some("y")} : FilterToggle([mode |-> "users", key |-> key])
    \/ \E key \in 0..N_STARS : FilterToggle([mode |-> "ratings", key |-> key])
    \/ \E mode \in {None, Some("types"), Some("ratings"), Some("users")} : FilterReset(mode)

SpecHome == InitHome /\ [][NextHome]_vars

\* the target of the toggle an event records
TargetOf(e) ==
    [mode |-> e.mode,
     key |-> IF e.mode = "ratings" THEN e.stars
             ELSE IF e.mode = "users" THEN e.user
             ELSE e.type]

\* the values a mode offers
OptionValues(options, mode) ==
    IF mode = "ratings" THEN 0..Get(options).ratings.maxStars
    ELSE ToSet(Get(options)[mode])

\* C22: a toggle called while every option of its mode is selected leaves
\* the toggled key as the only selected option of that mode, and leaves the
\* selections of the other modes as they were; toggleFilter does the same
\* for the types.
C22_ToggleWhenFull ==
    [][ (/\ event'.op = "toggle"
         /\ OptionValues(filterOptions, event'.mode) \subseteq filterState[event'.mode]) =>
            LET target == TargetOf(event') IN
            /\ filterState'[target.mode] = {target.key}
            /\ \A mode \in {"types", "users", "cities", "ratings"} \ {target.mode} :
                  filterState'[mode] = filterState[mode]
            /\ target.mode = "types" =>
                  toggleFilter(filterState.types, Get(filterOptions).types, target.key)
                      = {target.key} ]_vars

\* one of two users was toggled while both were selected
C22_Witness ==
    /\ event.op = "toggle"
    /\ event.mode = "users"
    /\ event.count = 2
    /\ Len(Get(filterOptions).users) = 2
    /\ filterState.users = {event.user}
    /\ Cardinality(filterState.ratings) = N_STARS + 1

\* C23: a toggle of the only selected option of a mode selects every option
\* of the mode: the ratings 0..maxStars, or every option value; toggleFilter
\* does the same for the types.
C23_ToggleLastSelected ==
    [][ (/\ event'.op = "toggle"
         /\ filterState[event'.mode] = {TargetOf(event').key}) =>
            LET target == TargetOf(event') IN
            /\ filterState'[target.mode] = OptionValues(filterOptions, target.mode)
            /\ target.mode = "types" =>
                  toggleFilter(filterState.types, Get(filterOptions).types, target.key)
                      = OptionValues(filterOptions, "types") ]_vars

\* the only selected rating was toggled, and all six ratings are selected
C23_Witness ==
    /\ event.op = "toggle"
    /\ event.mode = "ratings"
    /\ event.count = 1
    /\ filterState.ratings = 0..N_STARS

\* C24: once the options are defined, the selection of the types, of the
\* users and of the ratings holds only values the mode offers, and at least
\* one of them when the mode offers any.
C24_SelectionWithinOptions ==
    IsSome(filterOptions) =>
        \A mode \in {"types", "users", "ratings"} :
            /\ filterState[mode] \subseteq OptionValues(filterOptions, mode)
            /\ OptionValues(filterOptions, mode) # {} => filterState[mode] # {}

\* after toggles and a reset of one mode, two modes show a part of their options
C24_Witness ==
    /\ event.op = "reset"
    /\ event.mode = "types"
    /\ Cardinality(filterState.types) = 2
    /\ Cardinality(filterState.users) = 1
    /\ Cardinality(filterState.ratings) = 2

\* C25: with the state that reset() gives for the options of the loaded
\* dataset, the marker of every place of the dataset is on the map.
C25_AllVisibleAfterReset ==
    (IsSome(data) /\ filterState = FullState(filterOptions)) =>
        shown = 1..Len(Get(data).places)

\* C26: in the value fetchData returns, every success entry of rows is the
\* outcome processRow returned for that row: one review, and the types of
\* the row itself.
C26_RowOutcomesUntouched ==
    pc = "done" =>
        \A i \in 1..Len(procs) :
            Ok(i) =>
                /\ Len(Artifact.rows[i].data.reviews) = 1
                /\ Artifact.rows[i].data.types = procs[i].value.data.types
                /\ Artifact.rows[i] = procs[i].value

\* the identities of the returned places, in the order of the places
PlaceIds == [e \in 1..Len(Artifact.places) |-> Artifact.places[e].location.placeId]

\* C27: the returned places hold each identity of a successful row once and
\* no other identity, in the order in which the identities first appear
\* among the successful rows.
C27_OnePlacePerIdentity ==
    pc = "done" =>
        /\ \A e, f \in 1..Len(PlaceIds) : PlaceIds[e] = PlaceIds[f] => e = f
        /\ ToSet(PlaceIds) = {IdOf(i) : i \in {j \in 1..Len(procs) : Ok(j)}}
        /\ \A e, f \in 1..Len(PlaceIds) :
              e < f => FirstOk(PlaceIds[e]) < FirstOk(PlaceIds[f])

\* two successful rows of two places, P2 in the first row
C27_Witness ==
    /\ pc = "done"
    /\ Len(procs) = 2
    /\ Ok(1) /\ Ok(2)
    /\ IdOf(1) = "P2" /\ IdOf(2) = "P1"
    /\ PlaceIds = <<"P2", "P1">>

\* C28: the snapshot changes only by expiring or by loader storing the
\* serialized output of a run of fetchData that returned; when the run has
\* thrown, loader passes the exception on and leaves the snapshot as it was.
C28_FailedRunWritesNothing ==
    [][ /\ kv' # kv =>
              \/ kv' = None
              \/ /\ pc = "done"
                 /\ result.kind = "return"
                 /\ kv' = Some(JSON_stringify(result.value))
        /\ (pc = "failed" /\ pc' = "idle") =>
              /\ kv' = kv
              /\ response'.kind = "throw" ]_vars

\* a forced request whose run failed has left the snapshot of the run before
C28_Witness ==
    /\ pc = "idle"
    /\ requests = 2
    /\ runs = 2
    /\ response.kind = "throw"
    /\ IsSome(req) /\ Get(req).force
    /\ IsSome(kv)

====
